---- MODULE Spec2Model ----
(***************************************************************************)
(* Model of amelie/qt_app.py: the thread-local progress-listener registry, *)
(* the tqdm bridge, the scoped listener handle, the text post-processor    *)
(* `process`, the TranscriptionThread worker and the MainWindow handlers.  *)
(*                                                                         *)
(* Text is modelled as a sequence of one-character strings, so that        *)
(* str.split, str.join and str.startswith are computed, not assumed.       *)
(***************************************************************************)
EXTENDS Integers, Sequences, FiniteSets, TLC

(***************************************************************************)
(* Bounds of the model.                                                    *)
(***************************************************************************)
MaxLen == 7          \* longest enumerated input text of process
MaxRuns == 1         \* workers started by start_transcription
MaxThreads == 2      \* threads of the registry specification
MaxListeners == 2    \* listeners of the registry specification
MaxTotal == 3        \* largest total of the engine's progress bar
MaxOps == 4          \* registry operations in the registry specification
MaxSessions == 2     \* workers started in the sessions specification
MaxBridgeOps == 5    \* calls made in the bridge specification

None == "None"
\* "no value" for a text, a path and a progress bar (TLC compares like with like)
NoText == <<None>>
NoPath == [parent |-> None, stem |-> None, suffix |-> None]
NoBar == [_current |-> -1, total |-> -1]

Range(s) == {s[i] : i \in 1..Len(s)}

(***************************************************************************)
(* Text helpers (Python str semantics on character sequences).             *)
(***************************************************************************)
Chars == {"A", "B", ".", " "}

\* str.startswith
StartsWith(s, p) == Len(s) >= Len(p) /\ SubSeq(s, 1, Len(p)) = p

\* str.split('. '): leftmost, non-overlapping; always at least one fragment
RECURSIVE SplitFrom(_, _)
SplitFrom(s, cur) ==
    IF s = <<>> THEN <<cur>>
    ELSE IF Len(s) >= 2 /\ s[1] = "." /\ s[2] = " "
         THEN <<cur>> \o SplitFrom(SubSeq(s, 3, Len(s)), <<>>)
         ELSE SplitFrom(Tail(s), Append(cur, Head(s)))

split(s) == SplitFrom(s, <<>>)

\* '. '.join(fragments)
RECURSIVE join(_)
join(fr) ==
    IF fr = <<>> THEN <<>>
    ELSE IF Len(fr) = 1 THEN fr[1]
    ELSE fr[1] \o <<".", " ">> \o join(Tail(fr))

(***************************************************************************)
(* process (qt_app.py 129-146): the loop over the fragments, carrying      *)
(* final_lines and last_one exactly as the code does.                      *)
(***************************************************************************)
\* the test of line 137: `last_one and final_lines[-1] == sentence`
IsDouble(final_lines, last_one, sentence) ==
    last_one # <<>> /\ final_lines[Len(final_lines)] = sentence

\* the value of last_one after a removed fragment (line 138)
LastOneAfterRemoval_Reset(sentence) == <<>>

LastOneAfterRemoval(sentence) == sentence

RECURSIVE ProcessLoop(_, _, _)
ProcessLoop(sentences, final_lines, last_one) ==
    IF sentences = <<>> THEN final_lines
    ELSE LET sentence == Head(sentences) IN
         IF IsDouble(final_lines, last_one, sentence)
         THEN ProcessLoop(Tail(sentences), final_lines,
                          LastOneAfterRemoval(sentence))
         ELSE ProcessLoop(Tail(sentences), Append(final_lines, sentence),
                          sentence)

process(lines) == join(ProcessLoop(split(lines), <<>>, <<>>))

(***************************************************************************)
(* The reference post-processor of the specification: keep the first       *)
(* fragment, keep a later one iff it differs from the last kept one.       *)
(***************************************************************************)
RECURSIVE KeepDistinct(_, _)
KeepDistinct(fragments, kept) ==
    IF fragments = <<>> THEN kept
    ELSE IF kept # <<>> /\ kept[Len(kept)] = Head(fragments)
         THEN KeepDistinct(Tail(fragments), kept)
         ELSE KeepDistinct(Tail(fragments), Append(kept, Head(fragments)))

ReferenceProcess(s) == join(KeepDistinct(split(s), <<>>))

Text_AAB == <<"A", ".", " ", "A", ".", " ", "B", ".">>
Text_ABA == <<"A", ".", " ", "B", ".", " ", "A", ".">>

Texts(n) == UNION {[1..k -> Chars] : k \in 0..n}

ExampleTexts == {Text_AAB, Text_ABA}


(***************************************************************************)
(* Listener registry (qt_app.py 77-114).  Each thread has its own list;    *)
(* a listener is identified by a number.                                   *)
(***************************************************************************)
\* worker threads, in the order they are started
Workers == 1..(IF MaxRuns > MaxSessions THEN MaxRuns ELSE MaxSessions)
\* every worker is a thread, and run w creates its own listener, numbered w
Larger(a, b) == IF a > b THEN a ELSE b
Threads == 1..Larger(Larger(MaxRuns, MaxSessions), MaxThreads)
ListenerIds == 1..Larger(Larger(MaxRuns, MaxSessions), MaxListeners)

\* _get_thread_local_listeners (80-83): the list of the calling thread t
get_listeners_OfFirstThread(all, t) == all[1]

get_thread_local_listeners(all, t) == all[t]

RemoveFirst_All(ls, l) == SelectSeq(ls, LAMBDA x : x # l)

RECURSIVE RemoveFirst(_, _)
\* list.remove(x): removes the first occurrence
RemoveFirst(ls, l) ==
    IF ls = <<>> THEN <<>>
    ELSE IF Head(ls) = l THEN Tail(ls)
    ELSE <<Head(ls)>> \o RemoveFirst(Tail(ls), l)

register_thread_local_progress_listener(ls, l) == Append(ls, l)

unregister_KeepsListener(ls, l) == ls

unregister_thread_local_progress_listener(ls, l) ==
    IF l \in Range(ls) THEN RemoveFirst(ls, l) ELSE ls

RECURSIVE Count(_, _)
Count(ls, l) ==
    IF ls = <<>> THEN 0
    ELSE (IF Head(ls) = l THEN 1 ELSE 0) + Count(Tail(ls), l)

\* ProgressListenerHandle.__exit__, line 56: `if exc_type is None`
OnFinishedDue_Always(exc) == TRUE

OnFinishedDue(exc) == exc = NoText

(***************************************************************************)
(* Progress bridge (qt_app.py 60-74) and the worker's listener (174-176).  *)
(***************************************************************************)
\* pyqtSignal.emit from the worker thread (lines 176, 190, 193): the slot calls
\* are queued for the UI thread behind the ones already queued
Deliver_Front(queue, calls) == calls \o queue

Deliver(queue, calls) == queue \o calls

\* line 68: self._current += n
BarAdvance_Overwrite(current, n) == n

BarAdvance(current, n) == current + n

\* line 176: int(current/total*100), for 0 <= current and 0 < total
Percent(current, total) == (current * 100) \div total

(***************************************************************************)
(* Texts of the worker and of the handler.                                 *)
(***************************************************************************)
ErrorPrefix ==
    <<"E", "r", "r", "o", "r", " ", "o", "c", "c", "u", "r", "r", "e", "d",
      " ", "d", "u", "r", "i", "n", "g", " ", "t", "r", "a", "n", "s", "c",
      "r", "i", "p", "t", "i", "o", "n", ":", " ">>

ErrorAnnouncement ==
    <<"E", "r", "r", "o", "r", " ", "o", "c", "c", "u", "r", "r", "e", "d",
      " ", "d", "u", "r", "i", "n", "g", " ", "t", "r", "a", "n", "s", "c",
      "r", "i", "p", "t", "i", "o", "n", ":">>

ErrorWord == <<"E", "r", "r", "o", "r">>

ErrorColon == <<"E", "r", "r", "o", "r", ":">>

\* line 195: f"Error occurred during transcription: {str(e)}"
ErrorText(message) == ErrorPrefix \o message

\* line 306: self.transcription_result.startswith("Error")
IsErrorText_Colon(text) == StartsWith(text, ErrorColon)

IsErrorText(text) == StartsWith(text, ErrorWord)

\* line 189 / 192: `if not self.stopped`
SuppressEmission_Never(flag) == FALSE

SuppressEmission(flag) == flag

\* a transcript that itself begins with the word "Error"
Text_ErrorTranscript == <<"E", "r", "r", "o", "r", ".", " ", "A">>

\* what the engine may return as result["text"]
Transcripts == {Text_AAB, Text_ErrorTranscript}

Msg_Boom == <<"b", "o", "o", "m">>
Msg_DivisionByZero ==
    <<"d", "i", "v", "i", "s", "i", "o", "n", " ", "b", "y", " ", "z", "e",
      "r", "o">>

\* str(e) of the exceptions the engine raises
EngineMessages == {Msg_Boom}

(***************************************************************************)
(* Paths (pathlib).                                                        *)
(***************************************************************************)
AudioFiles ==
    {[parent |-> "dir", stem |-> "x", suffix |-> ".wav"],
     [parent |-> "dir", stem |-> "y", suffix |-> ".mp3"]}

with_suffix(path, suffix) == [path EXCEPT !.suffix = suffix]

name(path) == <<path.stem, path.suffix>>

\* audio_file_path.parent / dir / file_name
OutputFile(path, dir) ==
    [parent |-> path.parent, dir |-> dir, name |-> name(with_suffix(path, ".txt"))]

VARIABLES
    \* --- post-processor specification
    ppc,            \* "input" | "once" | "twice"
    lines,          \* the argument of process
    processed,      \* process(lines)
    reprocessed,    \* process(process(lines))
    \* --- registry and bridge (module state)
    listeners,      \* _thread_local.listeners of every thread
    hooked,         \* _hooked
    on_finished_calls,  \* per listener: number of on_finished() calls
    \* --- registry specification only
    scopes,         \* per thread: listeners of the open handles, innermost last
    lastOp,         \* the registry operation performed last
    ops,            \* number of registry operations performed
    \* --- MainWindow
    audio_file_path,
    transcribe_button,      \* isEnabled()
    select_file_button,     \* isEnabled()
    model_combo_box,        \* isEnabled()
    progress_bar,           \* [visible, value]
    transcription_result,
    last_dialog,            \* the QMessageBox shown last
    app_alive,              \* FALSE once the application has aborted
    files,                  \* the file system: output file -> content
    uiQueue,                \* queued signal deliveries to the UI thread
    nRuns,                  \* TranscriptionThread objects created so far
    \* --- TranscriptionThread, per worker
    pc,
    stopped,                \* self.stopped
    audio_file,             \* self.audio_file
    exc,                    \* str(e) of the exception raised, or NoText
    result,                 \* result["text"], or NoText
    bar,                    \* the engine's progress bar: [_current, total] or NoBar
    seek,                   \* the engine's position in the audio
    emitted,                \* texts emitted on finished_transcription
    progress_emitted,       \* values emitted on progress_signal
    \* --- history
    stopAt,                 \* pc of the worker when stop() was first called
    handled,                \* the Result of the run has been handled
    written,                \* output files written when handling the run
    progress_handled,       \* per run: values update_progress has received
    \* --- request of a run
    selected_model,         \* MainWindow.selected_model
    language,               \* MainWindow.language
    thread_model,           \* TranscriptionThread.model
    thread_language,        \* TranscriptionThread.language
    \* --- bridge specification only
    hook_pc,        \* per thread: position inside register_..._listener
    pending,        \* per thread: the listener being registered
    installs,       \* times the engine's progress-bar class was replaced
    bars,           \* per thread: the engine's bar, [_current, total] or NoBar
    barHist,        \* per thread: [initial, total, sum] of the bar's history
    owned,          \* per thread and listener: registrations still in force
    lastCalls,      \* on_progress calls made by the last update()
    lastUpdate,     \* thread of the last update(), 0 if none
    brOps           \* calls made so far

procVars == <<ppc, lines, processed, reprocessed>>
modVars == <<listeners, hooked, on_finished_calls>>
regVars == <<scopes, lastOp, ops>>
uiVars == <<audio_file_path, transcribe_button, select_file_button,
            model_combo_box, progress_bar, transcription_result, last_dialog,
            app_alive, files, nRuns>>
workerVars == <<pc, stopped, audio_file, exc, result, bar, seek, emitted,
                progress_emitted>>
histVars == <<stopAt, handled, written, progress_handled>>
reqVars == <<selected_model, language, thread_model, thread_language>>
brVars == <<hook_pc, pending, installs, bars, barHist, owned, lastCalls,
            lastUpdate, brOps>>

vars == <<procVars, modVars, regVars, uiVars, uiQueue, workerVars, histVars,
          reqVars, brVars>>

NoOp == [op |-> "none", thread |-> 0, listener |-> 0, exceptional |-> FALSE,
         before |-> 0]

\* the state after construction of the module and of MainWindow
InitProc ==
    /\ ppc = "input"
    /\ lines = <<>>
    /\ processed = <<>>
    /\ reprocessed = <<>>

InitModule ==
    /\ listeners = [t \in Threads |-> <<>>]
    /\ hooked = FALSE
    /\ on_finished_calls = [l \in ListenerIds |-> 0]

InitReg ==
    /\ scopes = [t \in Threads |-> <<>>]
    /\ lastOp = NoOp
    /\ ops = 0

InitApp ==
    /\ audio_file_path = NoPath
    /\ transcribe_button = TRUE
    /\ select_file_button = TRUE
    /\ model_combo_box = TRUE
    /\ progress_bar = [visible |-> FALSE, value |-> 0]
    /\ transcription_result = <<>>
    /\ last_dialog = None
    /\ app_alive = TRUE
    /\ files = <<>>
    /\ uiQueue = <<>>
    /\ nRuns = 0
    /\ pc = [w \in Workers |-> "unborn"]
    /\ stopped = [w \in Workers |-> FALSE]
    /\ audio_file = [w \in Workers |-> NoPath]
    /\ exc = [w \in Workers |-> NoText]
    /\ result = [w \in Workers |-> NoText]
    /\ bar = [w \in Workers |-> NoBar]
    /\ seek = [w \in Workers |-> 0]
    /\ emitted = [w \in Workers |-> <<>>]
    /\ progress_emitted = [w \in Workers |-> <<>>]
    /\ stopAt = [w \in Workers |-> None]
    /\ handled = [w \in Workers |-> FALSE]
    /\ written = [w \in Workers |-> {}]
    /\ progress_handled = [w \in Workers |-> <<>>]
    /\ selected_model = "tiny"
    /\ language = "de"
    /\ thread_model = [w \in Workers |-> None]
    /\ thread_language = [w \in Workers |-> None]

InitBridge ==
    /\ hook_pc = [t \in Threads |-> "ready"]
    /\ pending = [t \in Threads |-> 0]
    /\ installs = 0
    /\ bars = [t \in Threads |-> NoBar]
    /\ barHist = [t \in Threads |-> [initial |-> 0, total |-> 0, sum |-> 0]]
    /\ owned = [t \in Threads |-> [l \in ListenerIds |-> 0]]
    /\ lastCalls = <<>>
    /\ lastUpdate = 0
    /\ brOps = 0

Init == InitProc /\ InitModule /\ InitReg /\ InitApp /\ InitBridge

(***************************************************************************)
(* Post-processor specification.                                           *)
(***************************************************************************)
InitProcess ==
    /\ ppc = "input"
    /\ lines \in Texts(MaxLen) \cup ExampleTexts
    /\ processed = <<>>
    /\ reprocessed = <<>>
    /\ InitModule /\ InitReg /\ InitApp /\ InitBridge

\* process(lines)
ProcessOnce ==
    /\ ppc = "input"
    /\ processed' = process(lines)
    /\ ppc' = "once"
    /\ UNCHANGED <<lines, reprocessed>>
    /\ UNCHANGED <<modVars, regVars, uiVars, uiQueue, workerVars, histVars>>
    /\ UNCHANGED <<brVars, reqVars>>

\* process applied to its own output
ProcessAgain ==
    /\ ppc = "once"
    /\ reprocessed' = process(processed)
    /\ ppc' = "twice"
    /\ UNCHANGED <<lines, processed>>
    /\ UNCHANGED <<modVars, regVars, uiVars, uiQueue, workerVars, histVars>>
    /\ UNCHANGED <<brVars, reqVars>>

NextProcess == ProcessOnce \/ ProcessAgain

SpecProcess == InitProcess /\ [][NextProcess]_vars

(***************************************************************************)
(* TranscriptionThread.run (qt_app.py 164-197), one action per step of the *)
(* worker thread; stop() may be called between any two steps.              *)
(***************************************************************************)
\* transcribe() returns or raises: the bar and the engine's locals are gone
EngineLeaves(w) ==
    /\ bar' = [bar EXCEPT ![w] = NoBar]
    /\ seek' = [seek EXCEPT ![w] = 0]

\* line 183: whisper.load_model(self.model) returns or raises
LoadModel(w) ==
    /\ app_alive /\ pc[w] = "load"
    /\ \/ /\ pc' = [pc EXCEPT ![w] = "enter"]
          /\ UNCHANGED exc
       \/ \E m \in EngineMessages :
          /\ exc' = [exc EXCEPT ![w] = m]
          /\ pc' = [pc EXCEPT ![w] = "check_err"]
    /\ UNCHANGED <<brVars, reqVars, procVars, modVars, regVars, uiVars, uiQueue, histVars>>
    /\ UNCHANGED <<stopped, audio_file, result, bar, seek, emitted,
                   progress_emitted>>

\* line 185, ProgressListenerHandle.__enter__ (50-51) and register (102-107)
EnterScope(w) ==
    /\ app_alive /\ pc[w] = "enter"
    /\ hooked' = TRUE
    /\ listeners' = [listeners EXCEPT
                       ![w] = register_thread_local_progress_listener(@, w)]
    /\ pc' = [pc EXCEPT ![w] = "transcribe"]
    /\ UNCHANGED <<brVars, reqVars, procVars, regVars, uiVars, uiQueue, histVars,
                   on_finished_calls>>
    /\ UNCHANGED <<stopped, audio_file, exc, result, bar, seek,
                   emitted, progress_emitted>>

\* line 187: the engine constructs its progress bar (_CustomProgressBar.__init__)
CreateBarOf(w, totals) ==
    /\ app_alive /\ pc[w] = "transcribe" /\ bar[w] = NoBar
    /\ \E total \in totals :
          bar' = [bar EXCEPT ![w] = [_current |-> 0, total |-> total]]
    /\ UNCHANGED <<brVars, reqVars, procVars, modVars, regVars, uiVars, uiQueue, histVars>>
    /\ UNCHANGED <<pc, stopped, audio_file, exc, result, seek,
                   emitted, progress_emitted>>

CreateBar(w) == CreateBarOf(w, 0..MaxTotal)

\* _CustomProgressBar.update(n) (65-74) with on_progress (174-176) of every
\* listener of the calling thread; the engine reports the n units of audio
\* it has advanced by (none only when the audio has no units at all)
Update(w, n) ==
    /\ app_alive /\ pc[w] = "transcribe" /\ bar[w] # NoBar
    /\ seek[w] + n <= bar[w].total
    /\ n = 0 <=> bar[w].total = 0
    /\ LET current == BarAdvance(bar[w]._current, n)
           total == bar[w].total
           ls == listeners[w]
       IN /\ IF ls # <<>> /\ total = 0
             THEN \* ZeroDivisionError in on_progress leaves transcribe()
                  /\ exc' = [exc EXCEPT ![w] = Msg_DivisionByZero]
                  /\ pc' = [pc EXCEPT ![w] = "exit"]
                  /\ EngineLeaves(w)
                  /\ UNCHANGED <<progress_emitted, uiQueue>>
             ELSE /\ bar' = [bar EXCEPT ![w]._current = current]
                  /\ seek' = [seek EXCEPT ![w] = @ + n]
                  /\ progress_emitted' = [progress_emitted EXCEPT ![w] =
                        @ \o [i \in 1..Len(ls) |-> Percent(current, total)]]
                  /\ uiQueue' = Deliver(uiQueue,
                        [i \in 1..Len(ls) |->
                            [kind |-> "progress", run |-> ls[i],
                             value |-> Percent(current, total)]])
                  /\ UNCHANGED <<pc, exc>>
    /\ UNCHANGED <<brVars, reqVars, procVars, modVars, regVars, uiVars, histVars>>
    /\ UNCHANGED <<stopped, audio_file, result, emitted>>

\* line 187: model.transcribe returns its result
TranscribeReturn(w) ==
    /\ app_alive /\ pc[w] = "transcribe" /\ bar[w] # NoBar
    /\ \E text \in Transcripts : result' = [result EXCEPT ![w] = text]
    /\ pc' = [pc EXCEPT ![w] = "exit"]
    /\ EngineLeaves(w)
    /\ UNCHANGED <<brVars, reqVars, procVars, modVars, regVars, uiVars, uiQueue, histVars>>
    /\ UNCHANGED <<stopped, audio_file, exc, emitted, progress_emitted>>

\* line 187: model.transcribe raises
TranscribeRaise(w) ==
    /\ app_alive /\ pc[w] = "transcribe"
    /\ \E m \in EngineMessages : exc' = [exc EXCEPT ![w] = m]
    /\ pc' = [pc EXCEPT ![w] = "exit"]
    /\ EngineLeaves(w)
    /\ UNCHANGED <<brVars, reqVars, procVars, modVars, regVars, uiVars, uiQueue, histVars>>
    /\ UNCHANGED <<stopped, audio_file, result, emitted, progress_emitted>>

\* ProgressListenerHandle.__exit__, line 54: unregister
ExitUnregister(w) ==
    /\ app_alive /\ pc[w] = "exit"
    /\ listeners' = [listeners EXCEPT
                       ![w] = unregister_thread_local_progress_listener(@, w)]
    /\ pc' = [pc EXCEPT ![w] = "exit_finished"]
    /\ UNCHANGED <<brVars, reqVars, procVars, regVars, uiVars, uiQueue, histVars, hooked,
                   on_finished_calls>>
    /\ UNCHANGED <<stopped, audio_file, exc, result, bar, seek,
                   emitted, progress_emitted>>

\* ProgressListenerHandle.__exit__, lines 56-57: on_finished on a normal exit;
\* an exception in flight goes on to the except clause
ExitOnFinished(w) ==
    /\ app_alive /\ pc[w] = "exit_finished"
    /\ on_finished_calls' =
          IF OnFinishedDue(exc[w])
          THEN [on_finished_calls EXCEPT ![w] = @ + 1]
          ELSE on_finished_calls
    /\ pc' = [pc EXCEPT ![w] = IF exc[w] = NoText THEN "check_ok" ELSE "check_err"]
    /\ UNCHANGED <<brVars, reqVars, procVars, regVars, uiVars, uiQueue, histVars, hooked,
                   listeners>>
    /\ UNCHANGED <<stopped, audio_file, exc, result, bar, seek,
                   emitted, progress_emitted>>

\* lines 189 and 192: `if not self.stopped`
CheckStopped(w) ==
    /\ app_alive /\ pc[w] \in {"check_ok", "check_err"}
    /\ pc' = [pc EXCEPT ![w] =
                IF SuppressEmission(stopped[w]) THEN "done"
                ELSE IF pc[w] = "check_ok" THEN "emit_ok" ELSE "emit_err"]
    /\ UNCHANGED <<brVars, reqVars, procVars, modVars, regVars, uiVars, uiQueue, histVars>>
    /\ UNCHANGED <<stopped, audio_file, exc, result, bar, seek,
                   emitted, progress_emitted>>

\* lines 190 and 193-197: self.finished_transcription.emit(Result(...))
Emit(w) ==
    /\ app_alive /\ pc[w] \in {"emit_ok", "emit_err"}
    /\ LET text == IF pc[w] = "emit_ok" THEN result[w] ELSE ErrorText(exc[w])
       IN /\ emitted' = [emitted EXCEPT ![w] = Append(@, text)]
          /\ uiQueue' = Deliver(uiQueue,
                               <<[kind |-> "finished", run |-> w, text |-> text]>>)
    /\ pc' = [pc EXCEPT ![w] = "done"]
    /\ UNCHANGED <<brVars, reqVars, procVars, modVars, regVars, uiVars, histVars>>
    /\ UNCHANGED <<stopped, audio_file, exc, result, bar, seek,
                   progress_emitted>>

\* TranscriptionThread.stop (199-200), called on the UI thread
Stop(w) ==
    /\ app_alive /\ pc[w] # "unborn" /\ ~stopped[w]
    /\ stopped' = [stopped EXCEPT ![w] = TRUE]
    /\ stopAt' = [stopAt EXCEPT ![w] = pc[w]]
    /\ UNCHANGED <<brVars, reqVars, procVars, modVars, regVars, uiVars, uiQueue>>
    /\ UNCHANGED <<pc, audio_file, exc, result, bar, seek, emitted,
                   progress_emitted, handled, written, progress_handled>>

(***************************************************************************)
(* MainWindow handlers (qt_app.py 264-339).                                *)
(***************************************************************************)
\* select_file (264-270), the dialog accepted with file f
select_file(f) ==
    /\ app_alive /\ select_file_button
    /\ audio_file_path # f
    /\ audio_file_path' = f
    /\ UNCHANGED <<brVars, reqVars, procVars, modVars, regVars, uiQueue, workerVars, histVars>>
    /\ UNCHANGED <<transcribe_button, select_file_button, model_combo_box,
                   progress_bar, transcription_result, last_dialog, app_alive,
                   files, nRuns>>

\* start_transcription (278-283): no file selected
start_transcription_NoFile ==
    /\ app_alive /\ transcribe_button
    /\ audio_file_path = NoPath
    /\ last_dialog' = "warning"
    /\ UNCHANGED <<brVars, reqVars, procVars, modVars, regVars, uiQueue, workerVars, histVars>>
    /\ UNCHANGED <<audio_file_path, transcribe_button, select_file_button,
                   model_combo_box, progress_bar, transcription_result,
                   app_alive, files, nRuns>>

\* lines 287-289: setEnabled(False) on the three controls
EnabledWhileRunning_Kept == TRUE

EnabledWhileRunning == FALSE

\* start_transcription (285-298): a worker is created and started
StartTranscription(limit) ==
    /\ app_alive /\ transcribe_button
    /\ audio_file_path # NoPath
    /\ nRuns < limit
    /\ progress_bar' = [visible |-> TRUE, value |-> 0]
    /\ transcribe_button' = EnabledWhileRunning
    /\ select_file_button' = EnabledWhileRunning
    /\ model_combo_box' = EnabledWhileRunning
    /\ nRuns' = nRuns + 1
    /\ audio_file' = [audio_file EXCEPT ![nRuns + 1] = audio_file_path]
    /\ thread_model' = [thread_model EXCEPT ![nRuns + 1] = selected_model]
    /\ thread_language' = [thread_language EXCEPT ![nRuns + 1] = language]
    /\ pc' = [pc EXCEPT ![nRuns + 1] = "load"]
    /\ UNCHANGED <<brVars, selected_model, language>>
    /\ UNCHANGED <<procVars, modVars, regVars, uiQueue, histVars>>
    /\ UNCHANGED <<audio_file_path, transcription_result, last_dialog,
                   app_alive, files>>
    /\ UNCHANGED <<stopped, exc, result, bar, seek, emitted,
                   progress_emitted>>

start_transcription == StartTranscription(MaxRuns)

\* update_progress (300-301), the slot of progress_signal
update_progress ==
    /\ app_alive /\ uiQueue # <<>> /\ Head(uiQueue).kind = "progress"
    /\ progress_bar' = [progress_bar EXCEPT !.value = Head(uiQueue).value]
    /\ progress_handled' = [progress_handled EXCEPT ![Head(uiQueue).run] =
                                Append(@, Head(uiQueue).value)]
    /\ uiQueue' = Tail(uiQueue)
    /\ UNCHANGED <<brVars, reqVars, procVars, modVars, regVars, workerVars>>
    /\ UNCHANGED <<stopAt, handled, written>>
    /\ UNCHANGED <<audio_file_path, transcribe_button, select_file_button,
                   model_combo_box, transcription_result, last_dialog,
                   app_alive, files, nRuns>>

\* handle_transcription_finished (303-339), the slot of finished_transcription.
\* Line 336 passes the Result object where QMessageBox.critical takes a str:
\* the call raises TypeError, the rest of the slot is skipped, and PyQt5
\* either aborts the application or prints the traceback and carries on.
handle_transcription_finished ==
    /\ app_alive /\ uiQueue # <<>> /\ Head(uiQueue).kind = "finished"
    /\ LET text == Head(uiQueue).text
           w == Head(uiQueue).run
           done_file == OutputFile(audio_file_path, "done")
           output_file == OutputFile(audio_file_path, "processed_output")
       IN /\ transcription_result' = text
          /\ progress_bar' = [progress_bar EXCEPT !.visible = FALSE]
          /\ handled' = [handled EXCEPT ![w] = TRUE]
          /\ IF ~IsErrorText(text)
             THEN /\ files' = [k \in DOMAIN files \cup {done_file, output_file} |->
                                 IF k = output_file THEN process(text)
                                 ELSE IF k = done_file THEN text
                                 ELSE files[k]]
                  /\ written' = [written EXCEPT ![w] =
                                   {[file |-> done_file, content |-> text],
                                    [file |-> output_file,
                                     content |-> process(text)]}]
                  /\ last_dialog' = "information"
                  /\ transcribe_button' = TRUE
                  /\ select_file_button' = TRUE
                  /\ model_combo_box' = TRUE
                  /\ UNCHANGED app_alive
             ELSE /\ last_dialog' = "TypeError"
                  /\ app_alive' \in BOOLEAN
                  /\ UNCHANGED <<files, written, transcribe_button,
                                 select_file_button, model_combo_box>>
    /\ uiQueue' = Tail(uiQueue)
    /\ UNCHANGED <<brVars, reqVars, procVars, modVars, regVars, workerVars, stopAt,
                   progress_handled>>
    /\ UNCHANGED <<audio_file_path, nRuns>>

Worker(w) ==
    \/ LoadModel(w)
    \/ EnterScope(w)
    \/ CreateBar(w)
    \/ \E n \in 0..MaxTotal : Update(w, n)
    \/ TranscribeReturn(w)
    \/ TranscribeRaise(w)
    \/ ExitUnregister(w)
    \/ ExitOnFinished(w)
    \/ CheckStopped(w)
    \/ Emit(w)

Next ==
    \/ \E w \in Workers : Worker(w)
    \/ \E w \in Workers : Stop(w)
    \/ \E f \in AudioFiles : select_file(f)
    \/ start_transcription_NoFile
    \/ start_transcription
    \/ update_progress
    \/ handle_transcription_finished

Spec == Init /\ [][Next]_vars

(***************************************************************************)
(* Registry specification: the registry and the scoped handle used         *)
(* directly, with any listener on any thread.  Scopes of one thread nest   *)
(* (with-statements), so a thread leaves its innermost scope first.        *)
(***************************************************************************)
\* register_thread_local_progress_listener(l) called on thread t (102-107)
RegRegister(t, l) ==
    /\ ops < MaxOps
    /\ hooked' = TRUE
    /\ listeners' = [listeners EXCEPT
                       ![t] = register_thread_local_progress_listener(@, l)]
    /\ lastOp' = [op |-> "register", thread |-> t, listener |-> l,
                  exceptional |-> FALSE, before |-> Count(listeners[t], l)]
    /\ ops' = ops + 1
    /\ UNCHANGED <<brVars, reqVars, procVars, uiVars, uiQueue, workerVars, histVars,
                   on_finished_calls, scopes>>

\* unregister_thread_local_progress_listener(l) called on thread t (110-114)
RegUnregister(t, l) ==
    /\ ops < MaxOps
    /\ listeners' = [listeners EXCEPT
                       ![t] = unregister_thread_local_progress_listener(@, l)]
    /\ lastOp' = [op |-> "unregister", thread |-> t, listener |-> l,
                  exceptional |-> FALSE, before |-> Count(listeners[t], l)]
    /\ ops' = ops + 1
    /\ UNCHANGED <<brVars, reqVars, procVars, uiVars, uiQueue, workerVars, histVars,
                   on_finished_calls, hooked, scopes>>

\* ProgressListenerHandle(l).__enter__ on thread t (50-51)
RegEnter(t, l) ==
    /\ ops < MaxOps
    /\ hooked' = TRUE
    /\ listeners' = [listeners EXCEPT
                       ![t] = register_thread_local_progress_listener(@, l)]
    /\ scopes' = [scopes EXCEPT ![t] = Append(@, l)]
    /\ lastOp' = [op |-> "enter", thread |-> t, listener |-> l,
                  exceptional |-> FALSE, before |-> Count(listeners[t], l)]
    /\ ops' = ops + 1
    /\ UNCHANGED <<brVars, reqVars, procVars, uiVars, uiQueue, workerVars, histVars,
                   on_finished_calls>>

\* ProgressListenerHandle.__exit__ of the innermost scope of thread t (53-57),
\* the body having ended normally or with an exception
RegExit(t, exceptional) ==
    /\ scopes[t] # <<>>
    /\ LET l == scopes[t][Len(scopes[t])]
           exc_type == IF exceptional THEN <<"E">> ELSE NoText
       IN /\ listeners' = [listeners EXCEPT
                 ![t] = unregister_thread_local_progress_listener(@, l)]
          /\ on_finished_calls' =
                IF OnFinishedDue(exc_type)
                THEN [on_finished_calls EXCEPT ![l] = @ + 1]
                ELSE on_finished_calls
          /\ lastOp' = [op |-> "exit", thread |-> t, listener |-> l,
                        exceptional |-> exceptional,
                        before |-> Count(listeners[t], l)]
    /\ scopes' = [scopes EXCEPT ![t] = SubSeq(@, 1, Len(@) - 1)]
    /\ ops' = ops + 1
    /\ UNCHANGED <<brVars, reqVars, procVars, uiVars, uiQueue, workerVars, histVars, hooked>>

NextRegistry ==
    \/ \E t \in Threads, l \in ListenerIds : RegRegister(t, l)
    \/ \E t \in Threads, l \in ListenerIds : RegUnregister(t, l)
    \/ \E t \in Threads, l \in ListenerIds : RegEnter(t, l)
    \/ \E t \in Threads, e \in BOOLEAN : RegExit(t, e)

SpecRegistry == Init /\ [][NextRegistry]_vars

(***************************************************************************)
(* Session specification: the user drives the window (file, model and      *)
(* language selection, the Transcribe button) through several runs one     *)
(* after the other; MainWindow never calls TranscriptionThread.stop.       *)
(***************************************************************************)
model_options == {"tiny", "base"}   \* line 209, two of the five entries
languages == {"de", "en"}           \* line 211

\* select_model (272-273), the slot of the model combo box
select_model(text) ==
    /\ app_alive /\ model_combo_box
    /\ text # selected_model
    /\ selected_model' = text
    /\ UNCHANGED <<brVars, procVars, modVars, regVars, uiVars, uiQueue,
                   workerVars, histVars>>
    /\ UNCHANGED <<language, thread_model, thread_language>>

\* select_lang (275-276), the slot of the language combo box, which
\* start_transcription leaves enabled
select_lang(text) ==
    /\ app_alive
    /\ text # language
    /\ language' = text
    /\ UNCHANGED <<brVars, procVars, modVars, regVars, uiVars, uiQueue,
                   workerVars, histVars>>
    /\ UNCHANGED <<selected_model, thread_model, thread_language>>

start_session == StartTranscription(MaxSessions)

SessionTotals == {1}   \* every audio file of a session is one unit long

\* TranscriptionThread.run (164-197) of the worker of a session
SessionWorker(w) ==
    \/ LoadModel(w)
    \/ EnterScope(w)
    \/ CreateBarOf(w, SessionTotals)
    \/ \E n \in SessionTotals : Update(w, n)
    \/ TranscribeReturn(w)
    \/ TranscribeRaise(w)
    \/ ExitUnregister(w)
    \/ ExitOnFinished(w)
    \/ CheckStopped(w)
    \/ Emit(w)

NextSessions ==
    \/ \E w \in Workers : SessionWorker(w)
    \/ \E f \in AudioFiles : select_file(f)
    \/ \E text \in model_options : select_model(text)
    \/ \E text \in languages : select_lang(text)
    \/ start_transcription_NoFile
    \/ start_session
    \/ update_progress
    \/ handle_transcription_finished

SpecSessions == Init /\ [][NextSessions]_vars

(***************************************************************************)
(* Bridge specification: threads that call register (and with it           *)
(* init_progress_hook, one action per statement), unregister, and engine   *)
(* calls that construct a bar and report increments on their own thread.   *)
(* The listeners are ProgressListener objects (32-37).                     *)
(***************************************************************************)
BridgeThreads == {1, 2}     \* two threads that use the bridge side by side
BridgeListeners == {1, 2}   \* two ProgressListener objects
BarInitials == {0, 1}    \* tqdm(initial=...)
BarTotals == {2, 3}      \* tqdm(total=...)
Increments == {1, 2}     \* update(n)

NoCalls ==
    /\ lastCalls' = <<>>
    /\ lastUpdate' = 0

\* register_thread_local_progress_listener(l) is called on thread t; lines
\* 104, 92-93: init_progress_hook reads the latch
BrCallRegister(t, l) ==
    /\ hook_pc[t] = "ready" /\ brOps < MaxBridgeOps
    /\ pending' = [pending EXCEPT ![t] = l]
    /\ hook_pc' = [hook_pc EXCEPT ![t] = IF hooked THEN "append" ELSE "install"]
    /\ brOps' = brOps + 1
    /\ NoCalls
    /\ UNCHANGED <<procVars, modVars, regVars, uiVars, uiQueue, workerVars,
                   histVars, reqVars>>
    /\ UNCHANGED <<installs, bars, barHist, owned>>

\* lines 96-99: the engine's tqdm class is replaced and the latch is set
BrInstall(t) ==
    /\ hook_pc[t] = "install"
    /\ installs' = installs + 1
    /\ hooked' = TRUE
    /\ hook_pc' = [hook_pc EXCEPT ![t] = "append"]
    /\ NoCalls
    /\ UNCHANGED <<procVars, regVars, uiVars, uiQueue, workerVars, histVars,
                   reqVars, listeners, on_finished_calls>>
    /\ UNCHANGED <<pending, bars, barHist, owned, brOps>>

\* lines 106-107: the listener is appended to the list of the calling thread
BrAppend(t) ==
    /\ hook_pc[t] = "append"
    /\ listeners' = [listeners EXCEPT ![t] =
          register_thread_local_progress_listener(
              get_thread_local_listeners(listeners, t), pending[t])]
    /\ owned' = [owned EXCEPT ![t][pending[t]] = @ + 1]
    /\ hook_pc' = [hook_pc EXCEPT ![t] = "ready"]
    /\ pending' = [pending EXCEPT ![t] = 0]
    /\ NoCalls
    /\ UNCHANGED <<procVars, regVars, uiVars, uiQueue, workerVars, histVars,
                   reqVars, hooked, on_finished_calls>>
    /\ UNCHANGED <<installs, bars, barHist, brOps>>

\* unregister_thread_local_progress_listener(l) on thread t (110-114)
BrUnregister(t, l) ==
    /\ hook_pc[t] = "ready" /\ brOps < MaxBridgeOps
    /\ listeners' = [listeners EXCEPT ![t] =
          unregister_thread_local_progress_listener(
              get_thread_local_listeners(listeners, t), l)]
    /\ owned' = [owned EXCEPT ![t][l] = IF @ > 0 THEN @ - 1 ELSE 0]
    /\ brOps' = brOps + 1
    /\ NoCalls
    /\ UNCHANGED <<procVars, regVars, uiVars, uiQueue, workerVars, histVars,
                   reqVars, hooked, on_finished_calls>>
    /\ UNCHANGED <<hook_pc, pending, installs, bars, barHist>>

\* the engine, running on thread t, constructs its bar (60-63); it gets a
\* _CustomProgressBar once the class has been replaced
BrCreateBar(t, initial, total) ==
    /\ hook_pc[t] = "ready" /\ brOps < MaxBridgeOps
    /\ hooked /\ bars[t] = NoBar
    /\ bars' = [bars EXCEPT ![t] = [_current |-> initial, total |-> total]]
    /\ barHist' = [barHist EXCEPT
                     ![t] = [initial |-> initial, total |-> total, sum |-> 0]]
    /\ brOps' = brOps + 1
    /\ NoCalls
    /\ UNCHANGED <<procVars, modVars, regVars, uiVars, uiQueue, workerVars,
                   histVars, reqVars>>
    /\ UNCHANGED <<hook_pc, pending, installs, owned>>

\* _CustomProgressBar.update(n) on thread t (65-74): accumulate, then
\* on_progress(self._current, self.total) on every entry of the thread's list
BrUpdate(t, n) ==
    /\ hook_pc[t] = "ready" /\ brOps < MaxBridgeOps
    /\ bars[t] # NoBar
    /\ LET current == BarAdvance(bars[t]._current, n)
           ls == get_thread_local_listeners(listeners, t)
       IN /\ bars' = [bars EXCEPT ![t]._current = current]
          /\ lastCalls' = [i \in 1..Len(ls) |->
                             [listener |-> ls[i], current |-> current,
                              total |-> bars[t].total]]
    /\ lastUpdate' = t
    /\ barHist' = [barHist EXCEPT ![t].sum = @ + n]
    /\ brOps' = brOps + 1
    /\ UNCHANGED <<procVars, modVars, regVars, uiVars, uiQueue, workerVars,
                   histVars, reqVars>>
    /\ UNCHANGED <<hook_pc, pending, installs, owned>>

NextBridge ==
    \/ \E t \in BridgeThreads, l \in BridgeListeners : BrCallRegister(t, l)
    \/ \E t \in BridgeThreads : BrInstall(t)
    \/ \E t \in BridgeThreads : BrAppend(t)
    \/ \E t \in BridgeThreads, l \in BridgeListeners : BrUnregister(t, l)
    \/ \E t \in BridgeThreads, initial \in BarInitials, total \in BarTotals :
          BrCreateBar(t, initial, total)
    \/ \E t \in BridgeThreads, n \in Increments : BrUpdate(t, n)

SpecBridge == Init /\ [][NextBridge]_vars

(***************************************************************************)
(* C1: a run emits finished_transcription at most once; exactly once when  *)
(* stop() is never called; and not at all when stop() is called before the *)
(* worker reaches the guarded emission of either completion path.          *)
(***************************************************************************)
BeforeEmission ==
    {"load", "enter", "transcribe", "exit", "exit_finished", "check_ok",
     "check_err"}

C1_AtMostOneResult ==
    \A w \in Workers :
        /\ Len(emitted[w]) <= 1
        /\ (pc[w] = "done" /\ stopAt[w] = None) => Len(emitted[w]) = 1
        /\ stopAt[w] \in BeforeEmission => Len(emitted[w]) = 0

\* stop() came during the engine call, the engine still returned a transcript,
\* and the run ended without a Result
C1_Witness ==
    \E w \in Workers :
        /\ pc[w] = "done" /\ stopAt[w] = "transcribe"
        /\ result[w] # NoText /\ emitted[w] = <<>>

(***************************************************************************)
(* C2: once stop() has set the stopped flag, the worker emits no Result at *)
(* any later point, under every interleaving of stop() with run().         *)
(***************************************************************************)
C2_NoResultAfterStop ==
    [][\A w \in Workers : stopped[w] => emitted'[w] = emitted[w]]_vars

(***************************************************************************)
(* C3: immediately after __exit__ of a scope the listener is absent from   *)
(* the thread's list, whatever the list held on entry.                     *)
(***************************************************************************)
C3_AbsentAfterExit ==
    lastOp.op = "exit" =>
        lastOp.listener \notin Range(listeners[lastOp.thread])

\* C3 as amended: __exit__, normal or exceptional, removes exactly one
\* occurrence of the listener, so the listener is absent afterwards exactly
\* when the list held it at most once when __exit__ began.
C3_ExitRemovesOneOccurrence ==
    lastOp.op = "exit" =>
        LET after == Count(listeners[lastOp.thread], lastOp.listener)
        IN /\ after = (IF lastOp.before = 0 THEN 0 ELSE lastOp.before - 1)
           /\ (lastOp.before <= 1 =>
                 lastOp.listener \notin Range(listeners[lastOp.thread]))

\* a scope left by an exception, its listener registered once: now absent
C3_Witness ==
    /\ lastOp.op = "exit" /\ lastOp.exceptional /\ lastOp.before = 1
    /\ lastOp.listener \notin Range(listeners[lastOp.thread])

(***************************************************************************)
(* C4: on_finished is invoked exactly once when the scope body ends        *)
(* without an exception, not at all when it ends with one (an exception of *)
(* on_progress included), and only after the listener was unregistered.    *)
(***************************************************************************)
C4_OnFinishedIffNormalExit ==
    \A w \in Workers :
        /\ (result[w] # NoText /\ pc[w] \in {"check_ok", "emit_ok", "done"})
              => on_finished_calls[w] = 1
        /\ exc[w] # NoText => on_finished_calls[w] = 0
        /\ on_finished_calls[w] <= 1
        /\ (on_finished_calls[w] >= 1 \/ pc[w] = "exit_finished")
              => w \notin Range(listeners[w])

\* the body ended normally and on_finished has just been called
C4_Witness ==
    \E w \in Workers :
        /\ pc[w] = "check_ok" /\ on_finished_calls[w] = 1
        /\ Len(progress_emitted[w]) > 0

(***************************************************************************)
(* C5: for every input, process(s) equals the reference post-processor     *)
(* (keep a fragment iff it differs from the last kept one, the empty       *)
(* fragment included).                                                     *)
(***************************************************************************)
C5_ProcessEqualsReference ==
    ppc # "input" => processed = ReferenceProcess(lines)

(***************************************************************************)
(* C6: process is idempotent: process(process(s)) = process(s).            *)
(***************************************************************************)
C6_ProcessIdempotent ==
    ppc = "twice" => reprocessed = processed

\* a run of three equal fragments was collapsed and processed twice
C6_Witness ==
    /\ ppc = "twice"
    /\ lines = <<"A", ".", " ", "A", ".", " ", "A">>
    /\ processed = <<"A">>

(***************************************************************************)
(* C7: for every successful transcription, whatever the transcript text,   *)
(* the handler writes done/<name>.txt with the raw transcript and          *)
(* processed_output/<name>.txt with process(transcript), next to the audio *)
(* file.                                                                   *)
(***************************************************************************)
C7_SuccessWritesBothFiles ==
    \A w \in Workers :
        (handled[w] /\ result[w] # NoText) =>
            written[w] =
                {[file |-> OutputFile(audio_file[w], "done"),
                  content |-> result[w]],
                 [file |-> OutputFile(audio_file[w], "processed_output"),
                  content |-> process(result[w])]}

(***************************************************************************)
(* C8: when model loading or inference raises and stop() was not called,   *)
(* the run ends with one Result whose text is "Error occurred during       *)
(* transcription:" followed by the message, and handling that Result       *)
(* writes no file.                                                         *)
(***************************************************************************)
C8_FailureIsAbsorbed ==
    \A w \in Workers :
        exc[w] # NoText =>
            /\ \A i \in 1..Len(emitted[w]) :
                  /\ StartsWith(emitted[w][i], ErrorAnnouncement)
                  /\ emitted[w][i] = ErrorAnnouncement \o <<" ">> \o exc[w]
            /\ (pc[w] = "done" /\ stopAt[w] = None) => Len(emitted[w]) = 1
            /\ written[w] = {}

\* an engine failure was emitted as a Result and the Result was handled
C8_Witness ==
    \E w \in Workers :
        /\ exc[w] = Msg_Boom /\ handled[w]
        /\ written[w] = {} /\ files = <<>>

(***************************************************************************)
(* C9: after every run that emits a Result, successful or failed, the      *)
(* handler ends with the transcribe button, the file-selection button and  *)
(* the model combo box enabled again.                                      *)
(***************************************************************************)
C9_HandlerReenablesControls ==
    [][\A w \in Workers :
          (~handled[w] /\ handled'[w]) =>
              (transcribe_button' /\ select_file_button' /\ model_combo_box')]_vars

C11_ZeroTotalProgressDoesNotFail ==
    \A w \in Workers :
        /\ exc[w] # Msg_DivisionByZero
        /\ \A i \in 1..Len(emitted[w]) :
              emitted[w][i] # ErrorText(Msg_DivisionByZero)

(***************************************************************************)
(* C12: every progress emission of a run precedes its Result emission, and *)
(* the UI handles the Result only after it has handled every progress      *)
(* notification of the run, in the order they were reported; none follows  *)
(* the Result.                                                             *)
(***************************************************************************)
QueuedProgress(w) ==
    LET OfRun(m) == m.kind = "progress" /\ m.run = w
        queued == SelectSeq(uiQueue, OfRun)
    IN [i \in 1..Len(queued) |-> queued[i].value]

C12_ResultAfterAllProgress ==
    \A w \in Workers :
        /\ progress_handled[w] \o QueuedProgress(w) = progress_emitted[w]
        /\ \A i, j \in 1..Len(uiQueue) :
              (uiQueue[i].run = w /\ uiQueue[j].run = w
                 /\ uiQueue[i].kind = "finished" /\ uiQueue[j].kind = "progress")
                 => j < i
        /\ emitted[w] # <<>> => pc[w] = "done"
        /\ handled[w] => progress_handled[w] = progress_emitted[w]

\* the Result of a run with two progress notifications has been handled
C12_Witness ==
    \E w \in Workers :
        /\ handled[w] /\ result[w] # NoText
        /\ progress_handled[w] = <<33, 100>>

(***************************************************************************)
(* C13: with several threads active, an increment reported on thread T     *)
(* calls on_progress only on listeners registered by T, and a thread's     *)
(* list is changed only by that thread's own register and unregister.      *)
(***************************************************************************)
CallsOn(l) == Cardinality({i \in 1..Len(lastCalls) : lastCalls[i].listener = l})

C13_NotificationsStayOnThread ==
    /\ \A t \in Threads, l \in ListenerIds :
          Count(listeners[t], l) = owned[t][l]
    /\ lastUpdate # 0 =>
          \A l \in ListenerIds : CallsOn(l) = owned[lastUpdate][l]

\* thread 1 reports progress while thread 2 holds a listener of its own
C13_Witness ==
    /\ lastUpdate = 1 /\ lastCalls # <<>>
    /\ \E l \in ListenerIds : owned[2][l] > 0 /\ owned[1][l] = 0 /\ CallsOn(l) = 0

(***************************************************************************)
(* C14: under every interleaving of threads that call register, the        *)
(* engine's progress-bar class is replaced at most once in the process.    *)
(***************************************************************************)
C14_InstalledAtMostOnce == installs <= 1

FirstIndex(ls, l) ==
    CHOOSE i \in 1..Len(ls) : ls[i] = l /\ \A k \in 1..(i - 1) : ls[k] # l

C16_Step ==
    (ops' = ops + 1 /\ lastOp'.op \in {"register", "unregister"}) =>
        LET t == lastOp'.thread
            l == lastOp'.listener
            old == listeners[t]
            new == listeners'[t]
        IN /\ \A u \in Threads \ {t} : listeners'[u] = listeners[u]
           /\ lastOp'.op = "register" => new = old \o <<l>>
           /\ lastOp'.op = "unregister" =>
                 IF \E i \in 1..Len(old) : old[i] = l
                 THEN LET i == FirstIndex(old, l)
                      IN /\ Len(new) = Len(old) - 1
                         /\ \A k \in 1..(i - 1) : new[k] = old[k]
                         /\ \A k \in i..Len(new) : new[k] = old[k + 1]
                 ELSE new = old

C16_RegisterAppendsUnregisterRemovesFirst == [][C16_Step]_vars

\* a listener registered twice around another one has just lost its first
\* occurrence: the other listener now comes first
C16_Witness ==
    /\ lastOp.op = "unregister" /\ lastOp.before = 2
    /\ LET ls == listeners[lastOp.thread]
       IN /\ Len(ls) = 2
          /\ ls[1] # lastOp.listener
          /\ ls[2] = lastOp.listener

(***************************************************************************)
(* C17: whatever the user does in the window, at most one worker is        *)
(* between its start and the end of its run at any time.                   *)
(***************************************************************************)
Active(w) == pc[w] \notin {"unborn", "done"}

C17_AtMostOneActiveWorker ==
    \A v, w \in Workers : (Active(v) /\ Active(w)) => v = w

\* a second worker runs after the first one's Result has been handled
C17_Witness ==
    /\ nRuns = 2 /\ handled[1] /\ Active(2)
    /\ ~transcribe_button

(***************************************************************************)
(* C18: a worker takes its audio file, model and language from the window  *)
(* when it is started and keeps them whatever the user selects afterwards, *)
(* and the files written for its Result are named after the audio file it  *)
(* was started with.                                                       *)
(***************************************************************************)
Born(w) == pc[w] # "unborn"

FileNames(w) == {entry.file : entry \in written[w]}

C18_Step ==
    \A w \in Workers :
        /\ (~Born(w) /\ Born(w)') =>
              /\ audio_file'[w] = audio_file_path
              /\ thread_model'[w] = selected_model
              /\ thread_language'[w] = language
        /\ Born(w) =>
              /\ audio_file'[w] = audio_file[w]
              /\ thread_model'[w] = thread_model[w]
              /\ thread_language'[w] = thread_language[w]
        /\ (written[w] = {} /\ written'[w] # {}) =>
              FileNames(w)' = {OutputFile(audio_file[w], "done"),
                               OutputFile(audio_file[w], "processed_output")}

C18_RequestFixedAtConstruction == [][C18_Step]_vars

\* the user has changed the language while the worker is transcribing
C18_Witness ==
    \E w \in Workers :
        /\ Active(w) /\ progress_emitted[w] # <<>>
        /\ thread_language[w] # language
        /\ thread_model[w] = "base"

====
